---- MODULE Spec2Model ----
(***************************************************************************)
(* backslash-z: the request router of src/lib.rs.                          *)
(*                                                                         *)
(* A line of text is parsed into a Request (Request::from_str), and a      *)
(* Request is resolved into a Response or an error (Request::request,      *)
(* search_dic, search_air, search_howto).  The dictionary, geocoding,      *)
(* air-station and how-to services are external crates: their replies are  *)
(* the environment's choice.                                               *)
(*                                                                         *)
(* Text is a sequence of one-character strings.  Option<T> is a sequence   *)
(* of length 0 (None) or 1 (Some).                                         *)
(***************************************************************************)
EXTENDS Naturals, Sequences, FiniteSets

VARIABLES
    message,    \* Option<text>: the line given to Request::from_str
    request,    \* Option<Request>: the Request being resolved
    config,     \* Option<Config>: the credential given to Request::request
    pc,         \* where the resolution stands
    calls,      \* the collaborator calls issued so far, in order
    dicReply,   \* Option<result>: what the dictionary lookup returned
    howtoReply, \* Option<stream>: what the how-to lookup returned
    addrReply,  \* Option<stream>: what address geocoding returned
    placeReply, \* Option<stream>: what keyword geocoding returned
    airReply,   \* Option<result>: what the air-station lookup returned
    outcome,    \* Option<outcome>: the outcome handed to the caller
    peer        \* Option<resolution>: another resolution the caller has in
                \* progress, set aside while this one takes its steps

vars ==
    <<message, request, config, pc, calls, dicReply, howtoReply, addrReply,
      placeReply, airReply, outcome, peer>>

----------------------------------------------------------------------------
(* Bounds of the model *)

\* longest text that follows the leading token of a line
MaxTail == 2
\* most candidates a geocoding stream yields
MaxCands == 2
\* most pollutants a station reports
MaxPollutants == 3

----------------------------------------------------------------------------
(* Text *)

None == <<>>
Some(v) == <<v>>

SeqsUpTo(S, n) == UNION {[1..k -> S] : k \in 0..n}

StartsWith(text, tok) ==
    /\ Len(text) >= Len(tok)
    /\ SubSeq(text, 1, Len(tok)) = tok

\* str::contains
Contains(text, pat) ==
    \E i \in 0..Len(text) :
        /\ i + Len(pat) <= Len(text)
        /\ SubSeq(text, i + 1, i + Len(pat)) = pat

LowerChar(c) ==
    CASE c = "A" -> "a" [] c = "C" -> "c" [] c = "D" -> "d" [] c = "H" -> "h"
      [] c = "M" -> "m" [] c = "N" -> "n" [] c = "O" -> "o" [] c = "P" -> "p"
      [] c = "S" -> "s" [] c = "X" -> "x"
      [] OTHER -> c

\* str::to_lowercase
ToLowercase(text) == [i \in 1..Len(text) |-> LowerChar(text[i])]

----------------------------------------------------------------------------
(* The three patterns of Request::from_str *)

\* "." matches any character but a line feed
Dot(c) == c # "\n"

\* as TailMatches, with the trailing group written (.*)
TailMatchesStar(text, n) ==
    /\ Len(text) >= n + 1
    /\ text[n + 1] = " "
    /\ \A i \in (n + 2)..Len(text) : Dot(text[i])

\* " (.+)$" after a leading token of length n: one space, then at least one
\* character, none a line feed, up to the end of the text
TailMatches(text, n) ==
    /\ Len(text) >= n + 2
    /\ text[n + 1] = " "
    /\ \A i \in (n + 2)..Len(text) : Dot(text[i])

\* as FirstAlt, without backtracking: the first alternative that the text
\* starts with is the only one tried
FirstAltNoBacktrack(alts, text) ==
    LET starts == {i \in 1..Len(alts) : StartsWith(text, alts[i])}
        first == CHOOSE i \in starts : \A j \in starts : i <= j
    IN  IF starts = {} THEN 0
        ELSE IF TailMatches(text, Len(alts[first])) THEN first
        ELSE 0

\* The leading alternatives of a pattern are tried in order (leftmost first);
\* the index of the first one with which the whole pattern matches, or 0.
FirstAlt(alts, text) ==
    LET ok == {i \in 1..Len(alts) :
                  StartsWith(text, alts[i]) /\ TailMatches(text, Len(alts[i]))}
    IN  IF ok = {} THEN 0 ELSE CHOOSE i \in ok : \A j \in ok : i <= j

\* ^[dD](?:ic)? : the optional group is greedy, so "ic" is tried first
DicAlts == << <<"d", "i", "c">>, <<"d">>, <<"D", "i", "c">>, <<"D">> >>

\* ^(air|pm|pm10|pm25|o3|so2|no2|co|so2)
AirAlts ==
    << <<"a", "i", "r">>, <<"p", "m">>, <<"p", "m", "1", "0">>,
       <<"p", "m", "2", "5">>, <<"o", "3">>, <<"s", "o", "2">>,
       <<"n", "o", "2">>, <<"c", "o">>, <<"s", "o", "2">> >>

\* ^[hH](?:owto)?
HowtoAlts ==
    << <<"h", "o", "w", "t", "o">>, <<"h">>, <<"H", "o", "w", "t", "o">>, <<"H">> >>

\* Regex::captures: None, or the groups of the match: the leading token and
\* the trailing group (.+)
Captures(alts, text) ==
    LET i == FirstAlt(alts, text)
    IN  IF i = 0 THEN None
        ELSE Some([head |-> alts[i],
                   rest |-> SubSeq(text, Len(alts[i]) + 2, Len(text))])

REGEX_DIC(text) == Captures(DicAlts, text)
REGEX_AIR(text) == Captures(AirAlts, text)
\* as REGEX_HOWTO, with the pattern of REGEX_DIC copied in its place
REGEX_HOWTO_AsDic(text) == Captures(DicAlts, text)

REGEX_HOWTO(text) == Captures(HowtoAlts, text)

----------------------------------------------------------------------------
(* Request, Response, RequestError *)

Dictionary(query) == [variant |-> "Dictionary", command |-> <<>>, query |-> query]
AirPollution(command, query) ==
    [variant |-> "AirPollution", command |-> command, query |-> query]
HowTo(query) == [variant |-> "HowTo", command |-> <<>>, query |-> query]

NoStatus == [station_address |-> "", pollutants |-> None]

\* An outcome is Ok(Response) or Err(error); the error is a RequestError or an
\* error of a collaborator, passed on as it came.
RequestError(variant, text) ==
    [kind |-> "RequestError", variant |-> variant, text |-> text,
     status |-> NoStatus, item |-> 0]
CollaboratorError(code) ==
    [kind |-> "CollaboratorError", variant |-> "", text |-> <<>>,
     status |-> NoStatus, item |-> code]
Response(variant, status, item) ==
    [kind |-> "Response", variant |-> variant, text |-> <<>>,
     status |-> status, item |-> item]

\* Result<T, Error>
Ok(v) == [ok |-> TRUE, val |-> Some(v), err |-> None]
Err(e) == [ok |-> FALSE, val |-> None, err |-> Some(e)]

from_str(text) ==
    LET dic == REGEX_DIC(text)
        air == REGEX_AIR(text)
        howto == REGEX_HOWTO(text)
    IN  IF dic # None THEN Ok(Dictionary(dic[1].rest))
        ELSE IF air # None THEN Ok(AirPollution(air[1].head, air[1].rest))
        ELSE IF howto # None THEN Ok(HowTo(howto[1].rest))
        ELSE Err(RequestError("CannotParseRequest", text))

----------------------------------------------------------------------------
(* Coordinate extraction *)

\* as join, with a missing second component taken as 0
joinDefault(e) ==
    IF e[1] # None
    THEN Some(<<e[1][1], IF e[2] # None THEN e[2][1] ELSE 0>>)
    ELSE None

join(e) == IF e[1] # None /\ e[2] # None THEN Some(<<e[1][1], e[2][1]>>) ELSE None

get_coord_from_address(address) ==
    IF address.land_lot = None THEN None
    ELSE join(<<address.land_lot[1].longitude, address.land_lot[1].latitude>>)

get_coord_from_place(place) == join(<<place.longitude, place.latitude>>)

----------------------------------------------------------------------------
(* Streams of the collaborators *)

\* A stream yields its items in order and then ends, normally (end = None) or
\* with an error (end = Some(code)).
Stream(items, end) == [items |-> items, end |-> end]

\* as FirstOf, taking the last item whose f is Some(y) instead of the first
FirstOfLast(mapped, end) ==
    LET hits == {i \in 1..Len(mapped) : mapped[i] # None}
    IN  IF hits # {}
        THEN [ok |-> TRUE,
              val |-> <<mapped[CHOOSE i \in hits : \A j \in hits : i >= j]>>,
              err |-> <<>>]
        ELSE IF end = <<>> THEN [ok |-> TRUE, val |-> << <<>> >>, err |-> <<>>]
        ELSE [ok |-> FALSE, val |-> <<>>,
              err |-> <<CollaboratorError(end[1])>>]

\* stream.filter_map(f).into_future(), with the rest of the stream dropped;
\* mapped[i] is f of the i-th item.  Ok(Some(y)) for the first item whose f is
\* Some(y); Err(e) when the stream fails before such an item; Ok(None) when
\* it ends before such an item.
FirstOf(mapped, end) ==
    LET hits == {i \in 1..Len(mapped) : mapped[i] # None}
    IN  IF hits # {}
        THEN Ok(mapped[CHOOSE i \in hits : \A j \in hits : i <= j])
        ELSE IF end = None THEN Ok(None)
        ELSE Err(CollaboratorError(end[1]))

\* lines 127-135: the address stage of search_air
AddressStage(stream, query) ==
    LET coords == [i \in 1..Len(stream.items) |->
                      get_coord_from_address(stream.items[i])]
        first == FirstOf(coords, stream.end)
    IN  IF ~first.ok THEN first
        ELSE IF first.val[1] = None
        THEN Err(RequestError("AddressNotFound", query))
        ELSE Ok(first.val[1][1])

\* as KeywordStage, with every failure of the stage reported as
\* AddressNotFound
KeywordStageNotFound(stream, query) ==
    LET coords == [i \in 1..Len(stream.items) |->
                      get_coord_from_place(stream.items[i])]
        first == FirstOf(coords, stream.end)
    IN  IF ~first.ok \/ first.val[1] = None
        THEN Err(RequestError("AddressNotFound", query))
        ELSE Ok(first.val[1][1])

\* as KeywordStage, with the query of AddressNotFound read from a place that
\* all resolutions share and the one started last has written
KeywordStageShared(stream, query) ==
    LET coords == [i \in 1..Len(stream.items) |->
                      get_coord_from_place(stream.items[i])]
        first == FirstOf(coords, stream.end)
        shared == IF peer # None /\ peer[1].st.request # None
                  THEN peer[1].st.request[1].query
                  ELSE query
    IN  IF ~first.ok THEN first
        ELSE IF first.val[1] = None
        THEN Err(RequestError("AddressNotFound", shared))
        ELSE Ok(first.val[1][1])

\* lines 140-145: the keyword stage of search_air
KeywordStage(stream, query) ==
    LET coords == [i \in 1..Len(stream.items) |->
                      get_coord_from_place(stream.items[i])]
        first == FirstOf(coords, stream.end)
    IN  IF ~first.ok THEN first
        ELSE IF first.val[1] = None
        THEN Err(RequestError("AddressNotFound", query))
        ELSE Ok(first.val[1][1])

----------------------------------------------------------------------------
(* Pollutant filtering *)

PM == <<"P", "M">>
CmdAir == <<"a", "i", "r">>
CmdPm == <<"p", "m">>

\* as Pollutants, with the "pm" arm lower-casing the name like the last arm
PollutantsLowerPm(command, status) ==
    LET HasCommand(p) == Contains(ToLowercase(p.name), command)
    IN  IF command = CmdAir THEN status.pollutants
        ELSE SelectSeq(status.pollutants, HasCommand)

\* lines 151-161: the pollutants kept for a command
Pollutants(command, status) ==
    LET HasPM(p) == Contains(p.name, PM)
        HasCommand(p) == Contains(ToLowercase(p.name), command)
    IN  IF command = CmdAir THEN status.pollutants
        ELSE IF command = CmdPm THEN SelectSeq(status.pollutants, HasPM)
        ELSE SelectSeq(status.pollutants, HasCommand)

\* as AirStatusOutcome, without the test for an empty list
AirStatusOutcomeNoCheck(command, status) ==
    Response("AirPollution",
             [station_address |-> status.station_address,
              pollutants |-> Pollutants(command, status)], 0)

\* as AirStatusOutcome, with the command lower-cased before it is used
AirStatusOutcomeLowered(command, status) ==
    LET lowered == ToLowercase(command)
        pollutants == Pollutants(lowered, status)
    IN  IF pollutants = <<>>
        THEN RequestError("InvalidAirkoreaCommand", lowered)
        ELSE Response("AirPollution",
                      [station_address |-> status.station_address,
                       pollutants |-> pollutants], 0)

\* as AirStatusOutcome, with the filtered pollutants appended to a list that
\* all resolutions share and that still holds what an earlier one returned
AirStatusOutcomeShared(command, status) ==
    LET station_address == status.station_address
        left == IF peer # None /\ peer[1].st.outcome # None
                THEN peer[1].st.outcome[1].status.pollutants
                ELSE <<>>
        pollutants == left \o Pollutants(command, status)
    IN  IF pollutants = <<>>
        THEN RequestError("InvalidAirkoreaCommand", command)
        ELSE Response("AirPollution",
                      [station_address |-> station_address,
                       pollutants |-> pollutants], 0)

\* lines 149-172: from the station's status to the outcome of search_air
AirStatusOutcome(command, status) ==
    LET station_address == status.station_address
        pollutants == Pollutants(command, status)
    IN  IF pollutants = <<>>
        THEN RequestError("InvalidAirkoreaCommand", command)
        ELSE Response("AirPollution",
                      [station_address |-> station_address,
                       pollutants |-> pollutants], 0)

\* as HowtoOutcome, with the whole stream collected before its first answer
\* is taken
HowtoOutcomeCollect(stream, query) ==
    IF stream.end # None THEN CollaboratorError(stream.end[1])
    ELSE IF stream.items = <<>> THEN RequestError("HowtoNotFound", query)
    ELSE Response("HowTo", NoStatus, stream.items[1])

\* as HowtoOutcome, with the first answer unwrapped: no answer is a panic
HowtoOutcomeUnwrap(stream, query) ==
    LET answers == [i \in 1..Len(stream.items) |-> Some(stream.items[i])]
        first == FirstOf(answers, stream.end)
    IN  IF ~first.ok THEN first.err[1]
        ELSE IF first.val[1] = None
        THEN [kind |-> "Panic", variant |-> "", text |-> query,
              status |-> NoStatus, item |-> 0]
        ELSE Response("HowTo", NoStatus, first.val[1][1])

\* lines 178-181: from the how-to stream to the outcome of search_howto
HowtoOutcome(stream, query) ==
    LET answers == [i \in 1..Len(stream.items) |-> Some(stream.items[i])]
        first == FirstOf(answers, stream.end)
    IN  IF ~first.ok THEN first.err[1]
        ELSE IF first.val[1] = None THEN RequestError("HowtoNotFound", query)
        ELSE Response("HowTo", NoStatus, first.val[1][1])

\* line 115: from the dictionary's reply to the outcome of search_dic
DicOutcome(reply) ==
    IF reply.ok THEN Response("Dictionary", NoStatus, reply.val[1])
    ELSE reply.err[1]

----------------------------------------------------------------------------
(* What the caller gives and what the collaborators reply *)

Heads ==
    { <<>>, <<"d">>, <<"D">>, <<"d", "i">>, <<"d", "i", "c">>, <<"D", "i", "c">>,
      <<"d", "I", "C">>,
      <<"a", "i", "r">>, <<"A", "i", "r">>, <<"p", "m">>, <<"p", "m", "2">>,
      <<"p", "m", "1", "0">>, <<"p", "m", "2", "5">>, <<"o", "3">>,
      <<"s", "o", "2">>, <<"n", "o", "2">>, <<"c", "o">>, <<"c", "o", "2">>,
      <<"h">>, <<"H">>, <<"h", "o", "w">>, <<"h", "o", "w", "t", "o">>,
      <<"H", "o", "w", "t", "o">>, <<"x">>, <<" ", "d">> }

TailChars == {" ", "a", "\n"}

\* the lines the parser is tried on
Lines == {h \o t : h \in Heads, t \in SeqsUpTo(TailChars, MaxTail)}

\* the lines that are parsed and then resolved
ResolvedLines ==
    {h \o t :
        h \in { <<"d">>, <<"a", "i", "r">>, <<"p", "m">>, <<"o", "3">>,
                <<"h">>, <<"p", "m", "2">> },
        t \in { <<>>, <<" ", "a">>, <<" ", "b", " ", "c">> }}

\* Requests the caller builds itself: the variants of Request are public, so
\* the command need not be one the parser accepts and the query may be empty
BuiltRequests ==
    { AirPollution(<<"x", "y", "z">>, <<"a">>), AirPollution(PM, <<"a">>),
      AirPollution(<<>>, <<"a">>), AirPollution(CmdAir, <<>>),
      Dictionary(<<>>), HowTo(<<>>) }

\* Config.daummap_app_key
AppKeys == { <<"k", "1">>, <<"k", "2">> }

\* the errors a collaborator may fail with
ErrCodes == {1, 2}
Ends == {None} \cup {Some(e) : e \in ErrCodes}

Address(land_lot) == [land_lot |-> land_lot]
LandLot(longitude, latitude) == [longitude |-> longitude, latitude |-> latitude]
Place(longitude, latitude) == [longitude |-> longitude, latitude |-> latitude]

AddressPool ==
    { Address(None), Address(Some(LandLot(Some(1), None))),
      Address(Some(LandLot(Some(1), Some(3)))),
      Address(Some(LandLot(Some(2), Some(4)))) }

PlacePool ==
    { Place(None, Some(3)), Place(Some(1), Some(3)), Place(Some(2), Some(4)) }

AddressStreams ==
    {Stream(items, end) : items \in SeqsUpTo(AddressPool, MaxCands), end \in Ends}

PlaceStreams ==
    {Stream(items, end) : items \in SeqsUpTo(PlacePool, MaxCands), end \in Ends}

Pollutant(name) == [name |-> name]

PM10 == Pollutant(<<"P", "M", "1", "0">>)
PM25 == Pollutant(<<"P", "M", "2", "5">>)
O3 == Pollutant(<<"O", "3">>)
CO == Pollutant(<<"C", "O">>)
LowerPm == Pollutant(<<"p", "m", "1">>)

AirStatus(station_address, pollutants) ==
    [station_address |-> station_address, pollutants |-> pollutants]

\* the station statuses the air-station lookup answers with in a resolution
Statuses ==
    { AirStatus("Jongno", <<PM10, PM25, O3>>), AirStatus("Haeundae", <<>>),
      AirStatus("Jung", <<CO, LowerPm>>) }

AirReplies ==
    {Ok(st) : st \in Statuses} \cup {Err(CollaboratorError(e)) : e \in ErrCodes}

DicReplies == {Ok(1), Ok(2)} \cup {Err(CollaboratorError(e)) : e \in ErrCodes}

HowtoStreams ==
    {Stream(items, end) : items \in SeqsUpTo({1, 2}, MaxCands), end \in Ends}

\* a collaborator call as the resolver issues it
Call(svc, app_key, query, coord) ==
    [svc |-> svc, app_key |-> app_key, query |-> query, coord |-> coord]

\* line 115: daumdic::search(query)
DicCall(query) == Call("daumdic::search", None, query, None)
\* line 177: howto::howto(&query)
HowtoCall(query) == Call("howto::howto", None, query, None)
\* lines 127-128: daummap::AddressRequest::new(&app_key, &query).get()
AddressRequestCall(app_key, query) ==
    Call("daummap::AddressRequest", app_key, query, None)
\* as KeywordRequestCall, with the two arguments of new() exchanged
KeywordRequestSwapped(app_key, query) ==
    [svc |-> "daummap::KeywordRequest", app_key |-> query, query |-> app_key,
     coord |-> <<>>]

\* lines 140-141: daummap::KeywordRequest::new(&app_key, &query).get()
KeywordRequestCall(app_key, query) ==
    Call("daummap::KeywordRequest", app_key, query, None)
\* line 148: airkorea::search(longitude, latitude)
AirkoreaCall(coord) == Call("airkorea::search", None, None, <<coord[1], coord[2]>>)

\* as Resolver, with the HowTo arm calling search_dic
ResolverHowtoAsDic(r) ==
    CASE r.variant = "Dictionary" -> "search_dic"
      [] r.variant = "AirPollution" -> "search_air"
      [] r.variant = "HowTo" -> "search_dic"

\* lines 83-91: the resolver a Request is routed to
Resolver(r) ==
    CASE r.variant = "Dictionary" -> "search_dic"
      [] r.variant = "AirPollution" -> "search_air"
      [] r.variant = "HowTo" -> "search_howto"

----------------------------------------------------------------------------
(* The resolution of one request *)

Init ==
    /\ message = None
    /\ request = None
    /\ config = None
    /\ pc = "idle"
    /\ calls = <<>>
    /\ dicReply = None
    /\ howtoReply = None
    /\ addrReply = None
    /\ placeReply = None
    /\ airReply = None
    /\ outcome = None
    /\ peer = None

\* Request::from_str(line): Ok(request), or Err handed to the caller
FromStrOf(lines) ==
    /\ pc = "idle"
    /\ \E line \in lines :
          LET r == from_str(line)
          IN  /\ message' = Some(line)
              /\ IF r.ok
                 THEN /\ request' = r.val
                      /\ pc' = "request"
                      /\ outcome' = outcome
                 ELSE /\ request' = request
                      /\ pc' = "done"
                      /\ outcome' = r.err
    /\ UNCHANGED <<peer, config, calls, dicReply, howtoReply, addrReply, placeReply, airReply>>

FromStr == FromStrOf(ResolvedLines)

\* the caller builds a Request value without the parser
BuildOf(requests) ==
    /\ pc = "idle"
    /\ \E r \in requests : request' = Some(r)
    /\ pc' = "request"
    /\ UNCHANGED <<peer, message, config, calls, dicReply, howtoReply, addrReply, placeReply,
                   airReply, outcome>>

\* Request::request(self, config): the resolver of the variant starts and
\* issues its first collaborator call
Request_request ==
    /\ pc = "request"
    /\ \E key \in AppKeys :
          LET r == request[1]
              resolver == Resolver(r)
          IN  /\ config' = Some(key)
              /\ CASE resolver = "search_dic" ->
                        /\ calls' = Append(calls, DicCall(r.query))
                        /\ pc' = "dic"
                   [] resolver = "search_air" ->
                        /\ calls' = Append(calls, AddressRequestCall(key, r.query))
                        /\ pc' = "address"
                   [] resolver = "search_howto" ->
                        /\ calls' = Append(calls, HowtoCall(r.query))
                        /\ pc' = "howto"
    /\ UNCHANGED <<peer, message, request, dicReply, howtoReply, addrReply, placeReply,
                   airReply, outcome>>

\* search_dic: the dictionary lookup returns
DicReturnOf(replies) ==
    /\ pc = "dic"
    /\ \E reply \in replies :
          /\ dicReply' = Some(reply)
          /\ outcome' = Some(DicOutcome(reply))
    /\ pc' = "done"
    /\ UNCHANGED <<peer, message, request, config, calls, howtoReply, addrReply, placeReply,
                   airReply>>

\* search_howto: the how-to stream is polled up to its first answer
HowtoReturnOf(streams) ==
    /\ pc = "howto"
    /\ \E stream \in streams :
          /\ howtoReply' = Some(stream)
          /\ outcome' = Some(HowtoOutcome(stream, request[1].query))
    /\ pc' = "done"
    /\ UNCHANGED <<peer, message, request, config, calls, dicReply, addrReply, placeReply,
                   airReply>>

\* search_air: the address stream is polled up to its first coordinate; with
\* one the air-station lookup is issued, without one (or on an error) the
\* keyword request is
AddressReturnOf(streams) ==
    /\ pc = "address"
    /\ \E stream \in streams :
          LET r == AddressStage(stream, request[1].query)
          IN  /\ addrReply' = Some(stream)
              /\ IF r.ok
                 THEN /\ calls' = Append(calls, AirkoreaCall(r.val[1]))
                      /\ pc' = "air"
                 ELSE /\ calls' = Append(calls, KeywordRequestCall(config[1],
                                                                  request[1].query))
                      /\ pc' = "keyword"
    /\ UNCHANGED <<peer, message, request, config, dicReply, howtoReply, placeReply, airReply,
                   outcome>>

\* search_air: the keyword stream is polled up to its first coordinate; with
\* one the air-station lookup is issued, otherwise the resolution fails
KeywordReturnOf(streams) ==
    /\ pc = "keyword"
    /\ \E stream \in streams :
          LET r == KeywordStage(stream, request[1].query)
          IN  /\ placeReply' = Some(stream)
              /\ IF r.ok
                 THEN /\ calls' = Append(calls, AirkoreaCall(r.val[1]))
                      /\ pc' = "air"
                      /\ outcome' = outcome
                 ELSE /\ calls' = calls
                      /\ pc' = "done"
                      /\ outcome' = r.err
    /\ UNCHANGED <<peer, message, request, config, dicReply, howtoReply, addrReply, airReply>>

\* as AirReturnOf, with the keyword fallback catching a failed air-station
\* lookup as well (or_else chained after airkorea::search)
AirReturnOfFallback(replies) ==
    /\ pc = "air"
    /\ \E reply \in replies :
          /\ airReply' = Some(reply)
          /\ IF reply.ok
             THEN /\ outcome' = Some(AirStatusOutcome(request[1].command, reply.val[1]))
                  /\ calls' = calls
                  /\ pc' = "done"
             ELSE IF placeReply = None
             THEN /\ outcome' = outcome
                  /\ calls' = Append(calls, KeywordRequestCall(config[1], request[1].query))
                  /\ pc' = "keyword"
             ELSE /\ outcome' = reply.err
                  /\ calls' = calls
                  /\ pc' = "done"
    /\ UNCHANGED <<peer, message, request, config, dicReply, howtoReply, addrReply,
                   placeReply>>

\* search_air: the air-station lookup returns; its pollutants are filtered
AirReturnOf(replies) ==
    /\ pc = "air"
    /\ \E reply \in replies :
          /\ airReply' = Some(reply)
          /\ outcome' = IF reply.ok
                        THEN Some(AirStatusOutcome(request[1].command, reply.val[1]))
                        ELSE reply.err
    /\ pc' = "done"
    /\ UNCHANGED <<peer, message, request, config, calls, dicReply, howtoReply, addrReply,
                   placeReply>>

Build == BuildOf(BuiltRequests)
DicReturn == DicReturnOf(DicReplies)
HowtoReturn == HowtoReturnOf(HowtoStreams)
AddressReturn == AddressReturnOf(AddressStreams)
KeywordReturn == KeywordReturnOf(PlaceStreams)
AirReturn == AirReturnOf(AirReplies)

Next ==
    \/ FromStr
    \/ Build
    \/ Request_request
    \/ DicReturn
    \/ HowtoReturn
    \/ AddressReturn
    \/ KeywordReturn
    \/ AirReturn

Spec == Init /\ [][Next]_vars

\* the steps of Request::request and of the resolver it starts
Resolve ==
    \/ Request_request
    \/ DicReturn
    \/ HowtoReturn
    \/ AddressReturn
    \/ KeywordReturn
    \/ AirReturn

\* a Request given to Request::request is polled to completion, and every
\* collaborator call returns
FairSpec == Spec /\ WF_vars(Resolve)

----------------------------------------------------------------------------
(* The parser alone, on every line *)

ParseNext == FromStrOf(Lines)

ParseSpec == Init /\ [][ParseNext]_vars

----------------------------------------------------------------------------
(* The pollutant filter alone, on every pollutant list *)

FilterCommands ==
    { CmdAir, CmdPm, PM, <<"p", "m", "1", "0">>, <<"p", "m", "2", "5">>,
      <<"o", "3">>, <<"O", "3">>, <<"s", "o", "2">>, <<"n", "o", "2">>,
      <<"c", "o">>, <<"x", "y", "z">>, <<>> }

PollutantPool == {PM10, PM25, O3, CO, LowerPm}

FilterReplies ==
    {Ok(AirStatus("Jongno", ps)) : ps \in SeqsUpTo(PollutantPool, MaxPollutants)}

\* search_air has resolved a coordinate and waits for the air-station lookup
FilterInit ==
    /\ message = None
    /\ request \in {Some(AirPollution(c, <<"a">>)) : c \in FilterCommands}
    /\ config = Some(<<"k", "1">>)
    /\ pc = "air"
    /\ calls = <<AddressRequestCall(<<"k", "1">>, <<"a">>), AirkoreaCall(<<1, 3>>)>>
    /\ dicReply = None
    /\ howtoReply = None
    /\ addrReply = Some(Stream(<<Address(Some(LandLot(Some(1), Some(3))))>>, None))
    /\ placeReply = None
    /\ airReply = None
    /\ outcome = None
    /\ peer = None

FilterNext == AirReturnOf(FilterReplies)

FilterSpec == FilterInit /\ [][FilterNext]_vars

----------------------------------------------------------------------------
(* Notions the properties are stated with *)

NoLineFeed(text) == \A i \in 1..Len(text) : text[i] # "\n"

Suffixes(text) == {SubSeq(text, k, Len(text)) : k \in 1..Len(text)}

\* the ways text is a leading token of heads, one space, and a non-empty
\* remainder without a line feed
MatchSet(heads, text) ==
    {m \in heads \X Suffixes(text) :
        text = m[1] \o <<" ">> \o m[2] /\ NoLineFeed(m[2])}

DicHeads == { <<"d">>, <<"D">>, <<"d", "i", "c">>, <<"D", "i", "c">> }
AirHeads ==
    { <<"a", "i", "r">>, <<"p", "m">>, <<"p", "m", "1", "0">>, <<"p", "m", "2", "5">>,
      <<"o", "3">>, <<"s", "o", "2">>, <<"n", "o", "2">>, <<"c", "o">> }
HowtoHeads == { <<"h">>, <<"H">>, <<"h", "o", "w", "t", "o">>, <<"H", "o", "w", "t", "o">> }

\* an address / a place candidate bears a coordinate
AddressBears(a) ==
    /\ a.land_lot # None
    /\ a.land_lot[1].longitude # None
    /\ a.land_lot[1].latitude # None
PlaceBears(p) == p.longitude # None /\ p.latitude # None

AddressCoord(a) == <<a.land_lot[1].longitude[1], a.land_lot[1].latitude[1]>>
PlaceCoord(p) == <<p.longitude[1], p.latitude[1]>>

NoAddressBears == \A i \in 1..Len(addrReply[1].items) : ~AddressBears(addrReply[1].items[i])
NoPlaceBears == \A i \in 1..Len(placeReply[1].items) : ~PlaceBears(placeReply[1].items[i])

IsAir == request # None /\ request[1].variant = "AirPollution"

Failed(variant) ==
    /\ outcome # None
    /\ outcome[1].kind = "RequestError"
    /\ outcome[1].variant = variant

----------------------------------------------------------------------------
(* C1: Request::from_str returns the Request of the first of the dictionary, *)
(* air-pollution and how-to patterns that matches the text, its payload the  *)
(* captured groups, and fails with CannotParseRequest(text) exactly when     *)
(* none of the three matches; "pm2" fails.                                   *)
C1_FirstMatchWins ==
    message # None =>
        LET text == message[1]
            dic == MatchSet(DicHeads, text)
            air == MatchSet(AirHeads, text)
            howto == MatchSet(HowtoHeads, text)
        IN  /\ dic # {} =>
                  \E m \in dic : request = Some(Dictionary(m[2])) /\ outcome = None
            /\ dic = {} /\ air # {} =>
                  \E m \in air : request = Some(AirPollution(m[1], m[2])) /\ outcome = None
            /\ dic = {} /\ air = {} /\ howto # {} =>
                  \E m \in howto : request = Some(HowTo(m[2])) /\ outcome = None
            /\ dic = {} /\ air = {} /\ howto = {} =>
                  /\ request = None
                  /\ pc = "done"
                  /\ outcome = Some(RequestError("CannotParseRequest", text))
            /\ Failed("CannotParseRequest") => dic = {} /\ air = {} /\ howto = {}
            /\ text = <<"p", "m", "2">> => Failed("CannotParseRequest")

C1_Witness ==
    /\ message = Some(<<"d", "i", "c", " ", " ">>)
    /\ request = Some(Dictionary(<<" ">>))

----------------------------------------------------------------------------
(* C2: when address geocoding yields no coordinate-bearing candidate, or     *)
(* fails, keyword geocoding is attempted with the same credential and query  *)
(* before the resolution can fail; the error of the address stage is never   *)
(* the outcome; and the resolution fails with AddressNotFound(query) only if *)
(* neither stage yielded a coordinate-bearing candidate.                     *)
C2_KeywordFallback ==
    /\ (addrReply # None /\ NoAddressBears) =>
          /\ Len(calls) >= 2
          /\ calls[2] = [svc |-> "daummap::KeywordRequest", app_key |-> config[1],
                         query |-> request[1].query, coord |-> None]
          /\ outcome # None => placeReply # None
    /\ (IsAir /\ outcome # None /\ outcome[1].kind = "CollaboratorError") =>
          \/ /\ airReply # None
             /\ ~airReply[1].ok
             /\ outcome = airReply[1].err
          \/ /\ airReply = None
             /\ placeReply # None
             /\ placeReply[1].end # None
             /\ outcome[1].item = placeReply[1].end[1]
    /\ Failed("AddressNotFound") =>
          /\ outcome[1].text = request[1].query
          /\ addrReply # None /\ NoAddressBears
          /\ placeReply # None /\ NoPlaceBears

\* the address call failed with one error, the keyword call with another
C2_Witness ==
    /\ pc = "done"
    /\ addrReply # None /\ addrReply[1].end = Some(1)
    /\ placeReply # None /\ placeReply[1].end = Some(2)
    /\ outcome # None /\ outcome[1].kind = "CollaboratorError"

----------------------------------------------------------------------------
(* C3: the coordinate given to the air-station lookup is that of the first   *)
(* address candidate, in returned order, that bears a coordinate; when no    *)
(* address candidate bears one, that of the first place candidate that does. *)
C3_FirstCoordinate ==
    \A k \in 1..Len(calls) :
        calls[k].svc = "airkorea::search" =>
            IF ~NoAddressBears
            THEN \E i \in 1..Len(addrReply[1].items) :
                    /\ AddressBears(addrReply[1].items[i])
                    /\ \A j \in 1..(i - 1) : ~AddressBears(addrReply[1].items[j])
                    /\ calls[k].coord = AddressCoord(addrReply[1].items[i])
            ELSE /\ placeReply # None
                 /\ \E i \in 1..Len(placeReply[1].items) :
                       /\ PlaceBears(placeReply[1].items[i])
                       /\ \A j \in 1..(i - 1) : ~PlaceBears(placeReply[1].items[j])
                       /\ calls[k].coord = PlaceCoord(placeReply[1].items[i])

\* an address without a coordinate was skipped, and then a place without one
C3_Witness ==
    /\ pc = "air"
    /\ addrReply # None /\ Len(addrReply[1].items) = 2 /\ NoAddressBears
    /\ placeReply # None /\ Len(placeReply[1].items) = 2
    /\ ~PlaceBears(placeReply[1].items[1])
    /\ calls[Len(calls)].coord = <<2, 4>>

----------------------------------------------------------------------------
(* C4: the pollutant list the resolver returns is, in the station's order:   *)
(* the whole list for "air"; the pollutants whose name contains "PM", case   *)
(* kept, for "pm"; for any other command the pollutants whose lower-cased    *)
(* name contains the command.  An empty list is returned as a failure.       *)
Kept(command, p) ==
    IF command = <<"a", "i", "r">> THEN TRUE
    ELSE IF command = <<"p", "m">> THEN Contains(p.name, <<"P", "M">>)
    ELSE Contains(ToLowercase(p.name), command)

\* out is the elements of list that keep holds of, in the order of list
IsSelection(out, list, keep(_)) ==
    LET idx == {i \in 1..Len(list) : keep(list[i])}
        Nth(k) == CHOOSE i \in idx : Cardinality({j \in idx : j <= i}) = k
    IN  /\ Len(out) = Cardinality(idx)
        /\ \A k \in 1..Len(out) : out[k] = list[Nth(k)]

Returned == IF outcome[1].kind = "Response" THEN outcome[1].status.pollutants ELSE <<>>

C4_Filter ==
    (pc = "done" /\ airReply # None /\ airReply[1].ok) =>
        LET command == request[1].command
            list == airReply[1].val[1].pollutants
            KeptHere(p) == Kept(command, p)
        IN  /\ IsSelection(Returned, list, KeptHere)
            /\ list = <<PM10, PM25, O3>> =>
                  /\ command = <<"p", "m">> => Returned = <<PM10, PM25>>
                  /\ command = <<"o", "3">> => Returned = <<O3>>
                  /\ command = <<"x", "y", "z">> => Returned = <<>>

\* "pm" keeps PM10 and drops a pollutant named in lower case
C4_Witness ==
    /\ pc = "done"
    /\ request[1].command = <<"p", "m">>
    /\ airReply # None /\ airReply[1].ok
    /\ airReply[1].val[1].pollutants = <<LowerPm, PM10, O3>>
    /\ outcome[1].kind = "Response"
    /\ outcome[1].status.pollutants = <<PM10>>

----------------------------------------------------------------------------
(* C5: after a successful station lookup the resolver fails with             *)
(* InvalidAirkoreaCommand(command) exactly when the filtered list is empty   *)
(* ("air" on a station without pollutants included); otherwise it returns    *)
(* AirPollution with the station's address and the filtered list; so no      *)
(* AirPollution response carries an empty list.                              *)
C5_EmptyIsInvalid ==
    /\ (pc = "done" /\ airReply # None /\ airReply[1].ok) =>
          LET command == request[1].command
              status == airReply[1].val[1]
              KeptHere(p) == Kept(command, p)
              kept == SelectSeq(status.pollutants, KeptHere)
          IN  IF kept = <<>>
              THEN outcome = Some(RequestError("InvalidAirkoreaCommand", command))
              ELSE /\ outcome[1].kind = "Response"
                   /\ outcome[1].variant = "AirPollution"
                   /\ outcome[1].status.station_address = status.station_address
                   /\ outcome[1].status.pollutants = kept
    /\ Failed("InvalidAirkoreaCommand") => airReply # None /\ airReply[1].ok
    /\ (outcome # None /\ outcome[1].kind = "Response"
            /\ outcome[1].variant = "AirPollution") =>
          outcome[1].status.pollutants # <<>>

\* "air" on a station that reports no pollutant
C5_Witness ==
    /\ pc = "done"
    /\ airReply # None /\ airReply[1].ok
    /\ airReply[1].val[1].pollutants = <<>>
    /\ outcome = Some(RequestError("InvalidAirkoreaCommand", <<"a", "i", "r">>))

----------------------------------------------------------------------------
(* C6: but for the one fallback from address to keyword geocoding, a failure *)
(* of a step (keyword geocoding, air-station lookup, dictionary lookup,      *)
(* how-to lookup) ends the resolution with that error as the outcome, and    *)
(* no collaborator is called twice for a request.                            *)
LastCall == calls[Len(calls)].svc

C6_FailureIsTerminal ==
    /\ \A i, j \in 1..Len(calls) : i # j => calls[i].svc # calls[j].svc
    /\ (dicReply # None /\ ~dicReply[1].ok) =>
          /\ pc = "done" /\ outcome = dicReply[1].err
          /\ LastCall = "daumdic::search"
    /\ (howtoReply # None /\ howtoReply[1].items = <<>> /\ howtoReply[1].end # None) =>
          /\ pc = "done"
          /\ outcome[1].kind = "CollaboratorError"
          /\ outcome[1].item = howtoReply[1].end[1]
          /\ LastCall = "howto::howto"
    /\ (placeReply # None /\ NoPlaceBears /\ placeReply[1].end # None) =>
          /\ pc = "done"
          /\ outcome[1].kind = "CollaboratorError"
          /\ outcome[1].item = placeReply[1].end[1]
          /\ LastCall = "daummap::KeywordRequest"
    /\ (airReply # None /\ ~airReply[1].ok) =>
          /\ pc = "done" /\ outcome = airReply[1].err
          /\ LastCall = "airkorea::search"
    /\ pc = "done" => ~ENABLED Next

\* the air-station lookup failed after the fallback to keyword geocoding
C6_Witness ==
    /\ pc = "done"
    /\ placeReply # None
    /\ airReply # None /\ ~airReply[1].ok
    /\ Len(calls) = 3

----------------------------------------------------------------------------
(* C7: HowTo(query) resolves to HowTo(answer) with the first answer of the   *)
(* how-to collaborator, and fails with HowtoNotFound(query), the same query, *)
(* when the collaborator completes without an answer.                        *)
C7_Howto ==
    /\ howtoReply # None =>
          /\ howtoReply[1].items # <<>> =>
                /\ outcome[1].kind = "Response"
                /\ outcome[1].variant = "HowTo"
                /\ outcome[1].item = howtoReply[1].items[1]
          /\ (howtoReply[1].items = <<>> /\ howtoReply[1].end = None) =>
                outcome = Some(RequestError("HowtoNotFound", request[1].query))
    /\ Failed("HowtoNotFound") =>
          /\ request[1].variant = "HowTo"
          /\ howtoReply # None
          /\ howtoReply[1].items = <<>> /\ howtoReply[1].end = None

\* an answer came before the stream failed
C7_Witness ==
    /\ howtoReply # None
    /\ howtoReply[1].items = <<2, 1>> /\ howtoReply[1].end # None
    /\ outcome[1].kind = "Response" /\ outcome[1].item = 2

----------------------------------------------------------------------------
(* C8: a Request is routed to exactly one resolver, and a Response has the   *)
(* variant of its Request.                                                   *)
ServicesOf(variant) ==
    CASE variant = "Dictionary" -> {"daumdic::search"}
      [] variant = "AirPollution" ->
            {"daummap::AddressRequest", "daummap::KeywordRequest", "airkorea::search"}
      [] variant = "HowTo" -> {"howto::howto"}

C8_VariantsCorrespond ==
    /\ \A k \in 1..Len(calls) : calls[k].svc \in ServicesOf(request[1].variant)
    /\ (request # None /\ pc \notin {"idle", "request"}) => calls # <<>>
    /\ (outcome # None /\ outcome[1].kind = "Response") =>
          outcome[1].variant = request[1].variant

C8_Witness ==
    /\ request # None /\ request[1].variant = "HowTo"
    /\ outcome # None /\ outcome[1].kind = "Response"

----------------------------------------------------------------------------
(* C9, as the source has it: resolving a Request produces exactly one        *)
(* outcome, a Response, a RequestError or the error of a collaborator passed *)
(* on as it came; when every collaborator call returns, the outcome is       *)
(* eventually produced.                                                      *)
C9_OneOutcome ==
    /\ [](outcome # None =>
            /\ pc = "done"
            /\ outcome[1].kind \in {"Response", "RequestError", "CollaboratorError"})
    /\ [][outcome # None => outcome' = outcome]_vars
    /\ (pc = "request") ~> (outcome # None)

\* the dictionary lookup failed: the outcome is the collaborator's error
C9_Witness ==
    /\ pc = "done"
    /\ dicReply # None /\ ~dicReply[1].ok
    /\ outcome # None /\ outcome[1].kind = "CollaboratorError"

\* C9 as stated: the outcome is either a Response or a RequestError
C9_ResponseOrRequestError ==
    (request # None /\ pc = "done") =>
        /\ outcome # None
        /\ outcome[1].kind \in {"Response", "RequestError"}

----------------------------------------------------------------------------
(* C10, as the source has it: every RequestError outcome carries the input   *)
(* it is about (CannotParseRequest the unparsed text, AddressNotFound the    *)
(* location query, InvalidAirkoreaCommand the command, HowtoNotFound the     *)
(* how-to query); the error of a collaborator is passed on as it came.       *)
FailedReplyCodes ==
    (IF dicReply # None /\ ~dicReply[1].ok THEN {dicReply[1].err[1].item} ELSE {})
    \cup (IF howtoReply # None /\ howtoReply[1].end # None
          THEN {howtoReply[1].end[1]} ELSE {})
    \cup (IF placeReply # None /\ placeReply[1].end # None
          THEN {placeReply[1].end[1]} ELSE {})
    \cup (IF airReply # None /\ ~airReply[1].ok THEN {airReply[1].err[1].item} ELSE {})

C10_ErrorsCarryInput ==
    outcome # None =>
        /\ Failed("CannotParseRequest") =>
              request = None /\ outcome[1].text = message[1]
        /\ Failed("AddressNotFound") =>
              IsAir /\ outcome[1].text = request[1].query
        /\ Failed("InvalidAirkoreaCommand") =>
              IsAir /\ outcome[1].text = request[1].command
        /\ Failed("HowtoNotFound") =>
              request[1].variant = "HowTo" /\ outcome[1].text = request[1].query
        /\ outcome[1].kind = "RequestError" =>
              outcome[1].variant \in {"CannotParseRequest", "AddressNotFound",
                                      "InvalidAirkoreaCommand", "HowtoNotFound"}
        /\ outcome[1].kind = "CollaboratorError" =>
              outcome[1].item \in FailedReplyCodes /\ outcome[1].text = <<>>

\* a command the parser does not accept, reported with its letters as given
C10_Witness ==
    /\ Failed("InvalidAirkoreaCommand")
    /\ outcome[1].text = <<"P", "M">>
    /\ request[1].query = <<"a">>

\* C10 as stated: every failure carries the offending input text
C10_EveryFailureCarriesInput ==
    (outcome # None /\ outcome[1].kind # "Response") =>
        /\ outcome[1].kind = "RequestError"
        /\ \/ message # None /\ outcome[1].text = message[1]
           \/ request # None /\ outcome[1].text = request[1].query
           \/ request # None /\ outcome[1].text = request[1].command

----------------------------------------------------------------------------
(* A Request written back as a line and parsed again *)

\* the command-prefix form of a Request: "d " + query, command + " " + query,
\* "h " + query
Format(r) ==
    CASE r.variant = "Dictionary" -> <<"d", " ">> \o r.query
      [] r.variant = "AirPollution" -> r.command \o <<" ">> \o r.query
      [] r.variant = "HowTo" -> <<"h", " ">> \o r.query

RoundTripCommands ==
    { <<"a", "i", "r">>, <<"p", "m">>, <<"p", "m", "1", "0">>, <<"p", "m", "2", "5">>,
      <<"o", "3">>, <<"s", "o", "2">>, <<"n", "o", "2">>, <<"c", "o">>,
      <<"x", "y", "z">>, <<"P", "M">>, <<"d">>, <<>> }

RoundTripRequests ==
    LET queries == SeqsUpTo(TailChars, MaxTail)
    IN  {Dictionary(q) : q \in queries}
        \cup {HowTo(q) : q \in queries}
        \cup {AirPollution(c, q) : c \in RoundTripCommands, q \in queries}

\* the caller holds a Request and has not parsed its line yet
RoundTripInit ==
    /\ message = None
    /\ request \in {Some(r) : r \in RoundTripRequests}
    /\ config = None
    /\ pc = "idle"
    /\ calls = <<>>
    /\ dicReply = None
    /\ howtoReply = None
    /\ addrReply = None
    /\ placeReply = None
    /\ airReply = None
    /\ outcome = None
    /\ peer = None

\* Request::from_str on the line the Request is written back as
RoundTripNext == FromStrOf({Format(request[1])})

RoundTripSpec == RoundTripInit /\ [][RoundTripNext]_vars

\* a Request the parser can return: the query is not empty and holds no line
\* feed, and the command of an AirPollution is one the parser accepts
Parseable(r) ==
    /\ r.query # <<>>
    /\ NoLineFeed(r.query)
    /\ r.variant = "AirPollution" => r.command \in AirHeads

----------------------------------------------------------------------------
(* C11, as the source has it: a Request whose query is not empty and holds   *)
(* no line feed, and whose command, for AirPollution, is one of the tokens   *)
(* the parser accepts, written back in its command-prefix form parses to a   *)
(* Request of the same variant with the same command and query.              *)
C11_RoundTrip ==
    [][Parseable(request[1]) => (pc' = "request" /\ request' = request)]_vars

\* "pm10 a" written back from AirPollution("pm10", "a") and parsed again
C11_Witness ==
    /\ pc = "request"
    /\ message = Some(<<"p", "m", "1", "0", " ", "a">>)
    /\ request = Some(AirPollution(<<"p", "m", "1", "0">>, <<"a">>))

\* C11 as stated: any Request written back parses to the same Request
C11_AnyRequestRoundTrips ==
    [][pc' = "request" /\ request' = request]_vars

----------------------------------------------------------------------------
(* The order of the calls of one air-quality resolution *)

StageOrders ==
    { <<>>,
      <<"daummap::AddressRequest">>,
      <<"daummap::AddressRequest", "daummap::KeywordRequest">>,
      <<"daummap::AddressRequest", "airkorea::search">>,
      <<"daummap::AddressRequest", "daummap::KeywordRequest", "airkorea::search">> }

Issued(svc) == \E i \in 1..Len(calls) : calls[i].svc = svc

Returned3 == Len(addrReply) + Len(placeReply) + Len(airReply)

(* C14: within one air-quality resolution the collaborator calls are issued  *)
(* one at a time, each after the previous one returned, in the order address *)
(* geocoding, keyword geocoding only if the address stage produced no        *)
(* coordinate, air-station lookup only once a coordinate is resolved; a      *)
(* failed air-station lookup is followed by no call, and a resolution that   *)
(* ends with AddressNotFound has issued no air-station lookup.               *)
C14_StagesInOrder ==
    IsAir =>
        /\ [i \in 1..Len(calls) |-> calls[i].svc] \in StageOrders
        /\ Len(calls) = IF pc \in {"address", "keyword", "air"}
                        THEN Returned3 + 1 ELSE Returned3
        /\ addrReply # None => Issued("daummap::AddressRequest")
        /\ placeReply # None => Issued("daummap::KeywordRequest")
        /\ airReply # None => Issued("airkorea::search")
        /\ Issued("daummap::KeywordRequest") => addrReply # None /\ NoAddressBears
        /\ Issued("airkorea::search") =>
              /\ addrReply # None
              /\ \/ ~NoAddressBears /\ placeReply = None
                 \/ NoAddressBears /\ placeReply # None /\ ~NoPlaceBears
        /\ (airReply # None /\ ~airReply[1].ok) =>
              /\ LastCall = "airkorea::search"
              /\ pc = "done"
              /\ ~ENABLED Next
        /\ Failed("AddressNotFound") =>
              /\ ~Issued("airkorea::search")
              /\ pc = "done"
              /\ ~ENABLED Next

\* the address stage produced a coordinate and the air-station lookup failed:
\* the keyword request was never issued
C14_Witness ==
    /\ IsAir
    /\ pc = "done"
    /\ addrReply # None /\ ~NoAddressBears
    /\ airReply # None /\ ~airReply[1].ok
    /\ Len(calls) = 2

----------------------------------------------------------------------------
(* Two resolutions in progress at once *)

\* the resolution that is taking its steps, as one value
Resolution ==
    [message |-> message, request |-> request, config |-> config, pc |-> pc,
     calls |-> calls, dicReply |-> dicReply, howtoReply |-> howtoReply,
     addrReply |-> addrReply, placeReply |-> placeReply, airReply |-> airReply,
     outcome |-> outcome]

\* a resolution the caller has not started yet
Fresh ==
    [message |-> None, request |-> None, config |-> None, pc |-> "idle",
     calls |-> <<>>, dicReply |-> None, howtoReply |-> None, addrReply |-> None,
     placeReply |-> None, airReply |-> None, outcome |-> None]

\* the resolutions are numbered 1 and 2
Other(id) == 3 - id

PairRequests ==
    { Dictionary(<<"a">>), HowTo(<<"a">>),
      AirPollution(CmdAir, <<"a">>), AirPollution(CmdPm, <<"b">>) }

PairAddressStreams ==
    { Stream(<<>>, None), Stream(<<Address(None)>>, Some(1)),
      Stream(<<Address(Some(LandLot(Some(1), Some(3))))>>, None) }

PairPlaceStreams ==
    { Stream(<<>>, None), Stream(<<>>, Some(2)),
      Stream(<<Place(Some(2), Some(4))>>, None) }

PairAirReplies ==
    { Ok(AirStatus("Jongno", <<PM10, O3>>)), Ok(AirStatus("Jung", <<CO>>)),
      Err(CollaboratorError(1)) }

PairHowtoStreams ==
    { Stream(<<>>, None), Stream(<<>>, Some(1)), Stream(<<1, 2>>, None) }

\* neither resolution has started; the first is the one to take steps
PairInit ==
    /\ message = None
    /\ request = None
    /\ config = None
    /\ pc = "idle"
    /\ calls = <<>>
    /\ dicReply = None
    /\ howtoReply = None
    /\ addrReply = None
    /\ placeReply = None
    /\ airReply = None
    /\ outcome = None
    /\ peer = Some([id |-> 2, st |-> Fresh])

\* the caller leaves the resolution that was taking its steps where it
\* stands and goes on with the other one
Switch ==
    /\ peer # None
    /\ peer' = Some([id |-> Other(peer[1].id), st |-> Resolution])
    /\ message' = peer[1].st.message
    /\ request' = peer[1].st.request
    /\ config' = peer[1].st.config
    /\ pc' = peer[1].st.pc
    /\ calls' = peer[1].st.calls
    /\ dicReply' = peer[1].st.dicReply
    /\ howtoReply' = peer[1].st.howtoReply
    /\ addrReply' = peer[1].st.addrReply
    /\ placeReply' = peer[1].st.placeReply
    /\ airReply' = peer[1].st.airReply
    /\ outcome' = peer[1].st.outcome

PairNext ==
    \/ BuildOf(PairRequests)
    \/ Request_request
    \/ DicReturnOf(DicReplies)
    \/ HowtoReturnOf(PairHowtoStreams)
    \/ AddressReturnOf(PairAddressStreams)
    \/ KeywordReturnOf(PairPlaceStreams)
    \/ AirReturnOf(PairAirReplies)
    \/ Switch

PairSpec == PairInit /\ [][PairNext]_vars

\* the resolution numbered id
TaskOf(id) == IF peer[1].id = id THEN peer[1].st ELSE Resolution

\* the outcome of a finished resolution as its own Request and the replies
\* to its own calls determine it
AloneOutcome(st) ==
    LET r == st.request[1]
        KeptHere(p) == Kept(r.command, p)
        addressBears ==
            \E i \in 1..Len(st.addrReply[1].items) : AddressBears(st.addrReply[1].items[i])
        placeBears ==
            \E i \in 1..Len(st.placeReply[1].items) : PlaceBears(st.placeReply[1].items[i])
        air ==
            IF ~st.airReply[1].ok THEN st.airReply[1].err[1]
            ELSE LET status == st.airReply[1].val[1]
                     kept == SelectSeq(status.pollutants, KeptHere)
                 IN  IF kept = <<>>
                     THEN RequestError("InvalidAirkoreaCommand", r.command)
                     ELSE Response("AirPollution",
                                   [station_address |-> status.station_address,
                                    pollutants |-> kept], 0)
    IN  CASE r.variant = "Dictionary" ->
                IF st.dicReply[1].ok
                THEN Response("Dictionary", NoStatus, st.dicReply[1].val[1])
                ELSE st.dicReply[1].err[1]
          [] r.variant = "HowTo" ->
                IF st.howtoReply[1].items # <<>>
                THEN Response("HowTo", NoStatus, st.howtoReply[1].items[1])
                ELSE IF st.howtoReply[1].end = None
                THEN RequestError("HowtoNotFound", r.query)
                ELSE CollaboratorError(st.howtoReply[1].end[1])
          [] r.variant = "AirPollution" ->
                IF addressBears THEN air
                ELSE IF placeBears THEN air
                ELSE IF st.placeReply[1].end = None
                THEN RequestError("AddressNotFound", r.query)
                ELSE CollaboratorError(st.placeReply[1].end[1])

\* the calls of a resolution carry its own query and credential
OwnCalls(st) ==
    \A i \in 1..Len(st.calls) :
        /\ st.calls[i].query \in {None, st.request[1].query}
        /\ st.calls[i].app_key \in {None, st.config[1]}

StandsAlone(st) ==
    /\ st.pc = "done" => st.outcome = Some(AloneOutcome(st))
    /\ st.pc # "done" => st.outcome = None
    /\ OwnCalls(st)

(* C12: under every interleaving of the steps of two resolutions, a step of  *)
(* one leaves the other as it was, the calls of each carry its own query and *)
(* credential, and the outcome of each is what its own Request and the       *)
(* replies to its own calls determine, the same as when the other resolution *)
(* has not started.                                                          *)
C12_NoInterference ==
    /\ [](StandsAlone(TaskOf(1)) /\ StandsAlone(TaskOf(2)))
    /\ [][\E id \in {1, 2} : TaskOf(id)' = TaskOf(id)]_vars

\* both resolutions fell back to keyword geocoding, with different queries
\* and credentials, and each ended with AddressNotFound of its own query
C12_Witness ==
    /\ TaskOf(1).pc = "done"
    /\ TaskOf(2).pc = "done"
    /\ TaskOf(1).outcome = Some(RequestError("AddressNotFound", <<"a">>))
    /\ TaskOf(2).outcome = Some(RequestError("AddressNotFound", <<"b">>))
    /\ TaskOf(1).config # TaskOf(2).config

\* what the collaborator called svc replied to a resolution
ReplyTo(st, svc) ==
    CASE svc = "daumdic::search" -> st.dicReply
      [] svc = "howto::howto" -> st.howtoReply
      [] svc = "daummap::AddressRequest" -> st.addrReply
      [] svc = "daummap::KeywordRequest" -> st.placeReply
      [] svc = "airkorea::search" -> st.airReply

\* the collaborators were in the same state for both resolutions: the same
\* call got the same reply
SameWorld(s, t) ==
    \A i \in 1..Len(s.calls) : \A j \in 1..Len(t.calls) :
        s.calls[i] = t.calls[j] =>
            ReplyTo(s, s.calls[i].svc) = ReplyTo(t, t.calls[j].svc)

(* C13: two resolutions of the same Request with the same Configuration,     *)
(* whose calls the collaborators answer alike, issue the same calls and end  *)
(* with the same outcome (the same Response and payload, or the same error), *)
(* whether the second starts after the first has ended or before.            *)
C13_Idempotent ==
    LET s == TaskOf(1)
        t == TaskOf(2)
    IN  (/\ s.pc = "done"
         /\ t.pc = "done"
         /\ s.request = t.request
         /\ s.config = t.config
         /\ SameWorld(s, t)) =>
            /\ s.calls = t.calls
            /\ s.outcome = t.outcome

\* the same "pm" request resolved twice through the keyword fallback, the
\* station answering alike both times
C13_Witness ==
    /\ TaskOf(1).pc = "done"
    /\ TaskOf(2).pc = "done"
    /\ TaskOf(1).request = Some(AirPollution(CmdPm, <<"b">>))
    /\ TaskOf(2).request = TaskOf(1).request
    /\ TaskOf(1).config = TaskOf(2).config
    /\ Len(TaskOf(1).calls) = 3
    /\ SameWorld(TaskOf(1), TaskOf(2))
    /\ TaskOf(1).outcome[1].kind = "Response"
    /\ TaskOf(2).outcome = TaskOf(1).outcome

----------------------------------------------------------------------------
(* The three patterns tried in another order *)

PatternNames == {"dic", "air", "howto"}

\* the orders in which the three patterns can be tried
PatternOrders ==
    {o \in [1..3 -> PatternNames] : \A i, j \in 1..3 : o[i] = o[j] => i = j}

\* what one pattern makes of the text: None, or the Request of its match
RequestOf(p, text) ==
    LET m == CASE p = "dic" -> REGEX_DIC(text)
               [] p = "air" -> REGEX_AIR(text)
               [] p = "howto" -> REGEX_HOWTO(text)
    IN  IF m = None THEN None
        ELSE CASE p = "dic" -> Some(Dictionary(m[1].rest))
               [] p = "air" -> Some(AirPollution(m[1].head, m[1].rest))
               [] p = "howto" -> Some(HowTo(m[1].rest))

\* the first match when the patterns are tried in the order o
FromStrTrying(o, text) ==
    IF RequestOf(o[1], text) # None THEN Ok(RequestOf(o[1], text)[1])
    ELSE IF RequestOf(o[2], text) # None THEN Ok(RequestOf(o[2], text)[1])
    ELSE IF RequestOf(o[3], text) # None THEN Ok(RequestOf(o[3], text)[1])
    ELSE Err(RequestError("CannotParseRequest", text))

(* C15: no text matches more than one of the dictionary, air-pollution and   *)
(* how-to patterns, so what Request::from_str returns is what it would       *)
(* return with the patterns tried in any other order.                        *)
C15_PatternsExclusive ==
    message # None =>
        LET text == message[1]
        IN  /\ Cardinality({p \in PatternNames : RequestOf(p, text) # None}) <= 1
            /\ \A o \in PatternOrders :
                  LET r == FromStrTrying(o, text)
                  IN  IF r.ok
                      THEN request = r.val /\ outcome = None
                      ELSE request = None /\ outcome = r.err

\* "h a" is parsed: only the how-to pattern matches it
C15_Witness ==
    /\ message = Some(<<"h", " ", "a">>)
    /\ request = Some(HowTo(<<"a">>))
    /\ REGEX_DIC(message[1]) = None
    /\ REGEX_AIR(message[1]) = None

----------------------------------------------------------------------------
(* Coordinate extraction alone, on every shape of candidate *)

Longitudes == {None, Some(1), Some(2)}
Latitudes == {None, Some(3), Some(4)}

AllAddresses ==
    {Address(None)}
    \cup {Address(Some(LandLot(lon, lat))) : lon \in Longitudes, lat \in Latitudes}

AllPlaces == {Place(lon, lat) : lon \in Longitudes, lat \in Latitudes}

CoordAddressStreams == {Stream(<<a>>, None) : a \in AllAddresses}
CoordPlaceStreams == {Stream(<<p>>, None) : p \in AllPlaces}

CoordRequests ==
    { AirPollution(CmdAir, <<"a">>), AirPollution(CmdPm, <<"b">>) }

\* search_air has issued the address request and waits for its stream
CoordInit ==
    /\ message = None
    /\ request \in {Some(r) : r \in CoordRequests}
    /\ config \in {Some(key) : key \in AppKeys}
    /\ pc = "address"
    /\ calls = <<AddressRequestCall(config[1], request[1].query)>>
    /\ dicReply = None
    /\ howtoReply = None
    /\ addrReply = None
    /\ placeReply = None
    /\ airReply = None
    /\ outcome = None
    /\ peer = None

CoordNext ==
    \/ AddressReturnOf(CoordAddressStreams)
    \/ KeywordReturnOf(CoordPlaceStreams)

CoordSpec == CoordInit /\ [][CoordNext]_vars

(* C16: get_coord_from_address returns (longitude, latitude) exactly when    *)
(* the land-lot record is present with both its longitude and its latitude,  *)
(* get_coord_from_place exactly when the place has both; otherwise the       *)
(* result is no coordinate, never an error: the resolution falls back to the *)
(* keyword request, or ends with AddressNotFound.                            *)
C16_BothOrNothing ==
    /\ addrReply # None =>
          LET a == addrReply[1].items[1]
              both == IF a.land_lot = None THEN FALSE
                      ELSE /\ a.land_lot[1].longitude # None
                           /\ a.land_lot[1].latitude # None
          IN  IF both
              THEN /\ get_coord_from_address(a)
                        = Some(<<a.land_lot[1].longitude[1], a.land_lot[1].latitude[1]>>)
                   /\ calls[2] = AirkoreaCall(<<a.land_lot[1].longitude[1],
                                                a.land_lot[1].latitude[1]>>)
                   /\ placeReply = None
              ELSE /\ get_coord_from_address(a) = None
                   /\ calls[2] = KeywordRequestCall(config[1], request[1].query)
    /\ placeReply # None =>
          LET p == placeReply[1].items[1]
          IN  IF p.longitude # None /\ p.latitude # None
              THEN /\ get_coord_from_place(p) = Some(<<p.longitude[1], p.latitude[1]>>)
                   /\ calls[3] = AirkoreaCall(<<p.longitude[1], p.latitude[1]>>)
                   /\ outcome = None
              ELSE /\ get_coord_from_place(p) = None
                   /\ Len(calls) = 2
                   /\ outcome = Some(RequestError("AddressNotFound", request[1].query))

\* the land-lot has only its longitude: the keyword request follows, whose
\* place has only its latitude: the resolution ends with AddressNotFound
C16_Witness ==
    /\ addrReply = Some(Stream(<<Address(Some(LandLot(Some(1), None)))>>, None))
    /\ placeReply = Some(Stream(<<Place(None, Some(3))>>, None))
    /\ Failed("AddressNotFound")

====
